---- MODULE Spec2Model ----
(***************************************************************************)
(* Verification model of services/api/src/owl/routers/gen_table.py:        *)
(* the periodic maintenance jobs (reindex, optimize) and their file locks, *)
(* the row handlers' reindex trigger policy, the ordered emission of       *)
(* generation results, and the file upload pipeline.                       *)
(***************************************************************************)
EXTENDS Integers, Sequences, FiniteSets, TLC

VARIABLES
    lock,     \* holder of each job's lock file, NoHolder when free
    ticks,    \* the execution of a periodic function of each worker
    rows,     \* number of rows of the table the row requests address
    req,      \* the row request being handled
    gen,      \* the column computations of one add or regenerate request
    up,       \* the file upload being handled
    kt,       \* the knowledge table the upload targets
    files,    \* the records of the project's file table
    hash      \* one computation of a content's checksum

maintVars == <<lock, ticks>>
rowVars == <<rows, req>>
genVars == <<gen>>
upVars == <<up, kt, files>>
hashVars == <<hash>>
vars == <<lock, ticks, rows, req, gen, up, kt, files, hash>>
exceptMaint == <<rowVars, genVars, upVars, hashVars>>
exceptRows == <<maintVars, genVars, upVars, hashVars>>
exceptGen == <<maintVars, rowVars, upVars, hashVars>>
exceptUp == <<maintVars, rowVars, genVars, hashVars>>
exceptHash == <<maintVars, rowVars, genVars, upVars>>

(***************************************************************************)
(* Bounds of the model.                                                    *)
(***************************************************************************)
\* number of concurrent executions of the periodic functions (processes)
NumWorkers == 2
\* page size used by the enumeration (the code's default is 200); the first
\* organization's action store holds more tables than one page
BatchSize == 1

Workers == 1..NumWorkers
Jobs == {"reindex", "optimize"}
NoHolder == 0

(***************************************************************************)
(* The storage root: owl_db_dir holds the two lock files next to the       *)
(* organization directories; a project directory holds one store per       *)
(* table type and the file table.  The first organization's project has    *)
(* an action store of two tables; the second organization's project has    *)
(* no generative table yet, only its file table.                           *)
(***************************************************************************)
Ids(prefix, n) == [i \in 1..n |-> <<prefix, i>>]

Root ==
    << [name |-> "periodic_reindex.lock", is_dir |-> FALSE, entries |-> <<>>],
       [name |-> "org1", is_dir |-> TRUE, entries |->
          << [name |-> "proj1", is_dir |-> TRUE,
              action |-> Ids("a", 2), knowledge |-> <<>>, chat |-> <<>>],
             [name |-> "notes.txt", is_dir |-> FALSE,
              action |-> <<>>, knowledge |-> <<>>, chat |-> <<>>] >>],
       [name |-> "org2", is_dir |-> TRUE, entries |->
          << [name |-> "proj1", is_dir |-> TRUE,
              action |-> <<>>, knowledge |-> <<>>, chat |-> <<>>] >>] >>

table_types == <<"action", "knowledge", "chat">>

IsDir(e) == e.is_dir

\* the project directories in iteration order, each tagged with its organization
RECURSIVE ProjectDirs(_)
ProjectDirs(orgs) ==
    IF orgs = <<>> THEN <<>>
    ELSE LET org == Head(orgs)
             projs == SelectSeq(org.entries, IsDir)
         IN  (IF IsDir(org)
              THEN [i \in 1..Len(projs) |-> [org |-> org.name, dir |-> projs[i]]]
              ELSE <<>>) \o ProjectDirs(Tail(orgs))

Tenants == ProjectDirs(Root)

StoreTables(ti, ki) ==
    LET d == Tenants[ti].dir
    IN  CASE table_types[ki] = "action" -> d.action
          [] table_types[ki] = "knowledge" -> d.knowledge
          [] OTHER -> d.chat

Min(a, b) == IF a < b THEN a ELSE b

\* a listing that returns the first page whatever the offset
ListMetaPageIgnoringOffset(ti, ki, offset, limit) ==
    LET all == StoreTables(ti, ki)
    IN  [metas |-> SubSeq(all, 1, Min(limit, Len(all))),
         total |-> Len(all)]

\* table.list_meta(session, offset, limit): one page and the total
ListMetaPage(ti, ki, offset, limit) ==
    LET all == StoreTables(ti, ki)
    IN  [metas |-> SubSeq(all, offset + 1, Min(offset + limit, Len(all))),
         total |-> Len(all)]

TablePath(ti, ki, id) == <<Tenants[ti].org, Tenants[ti].dir.name, table_types[ki], id>>
FilePath(ti) == <<Tenants[ti].org, Tenants[ti].dir.name, "file", "file">>

(***************************************************************************)
(* _iter_all_tables as a generator: Advance runs it from a cursor to its   *)
(* next yield, to the exception that ends it, or to exhaustion.  f is the  *)
(* number of storage calls (create_session, list_meta) that succeed before *)
(* one raises: 0 when the next one raises, NoFailure when none raises.     *)
(***************************************************************************)
NoFailure == -1
\* the session yielded with a file table: None
NoSession == 0

\* sid numbers the sessions the enumeration has created
StartCursor ==
    [ti |-> 1, ki |-> 1, sess |-> FALSE, sid |-> 0,
     offset |-> 0, total |-> 1, page |-> <<>>]

RECURSIVE Advance(_, _)
\* the generator goes on from a cursor (the cursor is computed once)
Resume(cur, f) == CHOOSE r \in {Advance(c, g) : c \in {cur}, g \in {f}} : TRUE

Advance(cur, f) ==
    IF cur.ti > Len(Tenants) THEN [kind |-> "stop", cur |-> cur]
    ELSE IF cur.ki > Len(table_types) THEN [kind |-> "file", cur |-> cur]
    ELSE IF ~cur.sess
    THEN IF f = 0 THEN [kind |-> "raise", cur |-> cur]
         ELSE Resume([cur EXCEPT !.sess = TRUE, !.sid = @ + 1,
                                 !.offset = 0, !.total = 1, !.page = <<>>], f - 1)
    ELSE IF cur.page # <<>> THEN [kind |-> "table", cur |-> cur]
    ELSE IF cur.offset < cur.total
    THEN IF f = 0 THEN [kind |-> "raise", cur |-> [cur EXCEPT !.sess = FALSE]]
         ELSE LET pg == ListMetaPage(cur.ti, cur.ki, cur.offset, BatchSize)
              IN  Resume([cur EXCEPT !.page = pg.metas, !.total = pg.total,
                                     !.offset = @ + BatchSize], f - 1)
    ELSE Resume([cur EXCEPT !.sess = FALSE, !.ki = @ + 1], f)

(***************************************************************************)
(* One execution of periodic_reindex / periodic_optimize.                  *)
(***************************************************************************)
IdleTick ==
    [job |-> "none", pc |-> "idle", cur |-> StartCursor,
     num_ok |-> 0, num_skipped |-> 0, num_failed |-> 0,
     yielded |-> <<>>, yieldedSess |-> <<>>, visits |-> <<>>, lastCalls |-> <<>>,
     log |-> <<>>, summary |-> <<>>, failLines |-> 0,
     attempts |-> 0, foundHeld |-> FALSE, raised |-> 0,
     saidDone |-> 0, saidNotDone |-> 0, sawRaise |-> 0]

MaintInit ==
    /\ lock = [j \in Jobs |-> NoHolder]
    /\ ticks = [w \in Workers |-> IdleTick]

\* the periodic function returns: its locals are gone, its log lines remain
Returned(t, line) ==
    [IdleTick EXCEPT !.job = t.job, !.log = Append(t.log, line),
                     !.attempts = t.attempts, !.foundHeld = t.foundHeld]

\* a lock that is granted whoever holds it
CanAcquireAlways(j) == lock[j] \in Workers \cup {NoHolder}

\* FileLock(..., blocking=False): the lock is taken only when nobody holds it
CanAcquire(j) == lock[j] = NoHolder

\* contention handled by the generic handler instead of "except Timeout"
OnTimeoutAsError(t) == Returned(t, "error")

\* "except Timeout": the only thing a contended tick does
OnTimeout(t) == Returned(t, "skipped")

\* the periodic function is entered: one acquisition attempt
Tick(w, j) ==
    /\ ticks[w].pc = "idle"
    /\ LET t0 == [IdleTick EXCEPT !.job = j, !.attempts = 1,
                                  !.foundHeld = (lock[j] # NoHolder)]
       IN  IF CanAcquire(j)
           THEN /\ lock' = [lock EXCEPT ![j] = w]
                /\ ticks' = [ticks EXCEPT ![w] =
                       [t0 EXCEPT !.pc = "pass", !.log = <<"started">>]]
           ELSE /\ ticks' = [ticks EXCEPT ![w] = OnTimeout(t0)]
                /\ UNCHANGED lock
    /\ UNCHANGED exceptMaint

InPass(w) == ticks[w].pc = "pass"

Results == {"true", "false", "raise"}

\* a reindex loop body without its try/except: a raising build ends the pass
ReindexBodyUncaught(t, has_session, path, r) ==
    IF ~has_session THEN [t EXCEPT !.lastCalls = <<>>]
    ELSE LET c == [t EXCEPT !.visits = Append(@, path),
                            !.lastCalls = <<"create_indexes">>]
         IN  CASE r = "true" -> [c EXCEPT !.num_ok = @ + 1]
               [] r = "false" -> [c EXCEPT !.num_skipped = @ + 1]
               [] OTHER -> [c EXCEPT !.raised = @ + 1, !.pc = "idle",
                                     !.log = Append(@, "error")]

\* body of the reindex loop for one yielded item (has_session: session is not None)
ReindexBody(t, has_session, path, r) ==
    IF ~has_session THEN [t EXCEPT !.lastCalls = <<>>]
    ELSE LET c == [t EXCEPT !.visits = Append(@, path),
                            !.lastCalls = <<"create_indexes">>]
         IN  CASE r = "true" -> [c EXCEPT !.num_ok = @ + 1]
               [] r = "false" -> [c EXCEPT !.num_skipped = @ + 1]
               [] OTHER -> [c EXCEPT !.num_failed = @ + 1, !.failLines = @ + 1,
                                     !.raised = @ + 1]

\* an optimize loop body that counts a table as ok unless a sub-step raises
OptimizeBodyLenient(t, path, c, v) ==
    LET t1 == [t EXCEPT !.visits = Append(@, path)] IN
    CASE c = "raise" ->
           [t1 EXCEPT !.lastCalls = <<"compact_files">>,
                      !.num_failed = @ + 1, !.failLines = @ + 1, !.raised = @ + 1]
      [] c = "false" ->
           [t1 EXCEPT !.lastCalls = <<"compact_files">>, !.num_ok = @ + 1]
      [] OTHER ->
           LET t2 == [t1 EXCEPT !.lastCalls = <<"compact_files", "cleanup_old_versions">>]
           IN  CASE v = "raise" ->
                      [t2 EXCEPT !.num_failed = @ + 1, !.failLines = @ + 1, !.raised = @ + 1]
                 [] OTHER -> [t2 EXCEPT !.num_ok = @ + 1]

\* body of the optimize loop for one yielded item: "done and ..." short-circuits
OptimizeBody(t, path, c, v) ==
    LET t1 == [t EXCEPT !.visits = Append(@, path)] IN
    CASE c = "raise" ->
           [t1 EXCEPT !.lastCalls = <<"compact_files">>,
                      !.num_failed = @ + 1, !.failLines = @ + 1, !.raised = @ + 1]
      [] c = "false" ->
           [t1 EXCEPT !.lastCalls = <<"compact_files">>, !.num_skipped = @ + 1]
      [] OTHER ->
           LET t2 == [t1 EXCEPT !.lastCalls = <<"compact_files", "cleanup_old_versions">>]
           IN  CASE v = "raise" ->
                      [t2 EXCEPT !.num_failed = @ + 1, !.failLines = @ + 1, !.raised = @ + 1]
                 [] v = "false" -> [t2 EXCEPT !.num_skipped = @ + 1]
                 [] OTHER -> [t2 EXCEPT !.num_ok = @ + 1]

\* a reindex loop that builds the index of the file tables too
LoopBodyIndexingFiles(t, has_session, path, c, v) ==
    IF t.job = "reindex" THEN ReindexBody(t, TRUE, path, c)
    ELSE OptimizeBody(t, path, c, v)

LoopBody(t, has_session, path, c, v) ==
    IF t.job = "reindex" THEN ReindexBody(t, has_session, path, c)
    ELSE OptimizeBody(t, path, c, v)

\* what the storage operations answered in one visit: every operation
\* reported true, one reported false, or one raised
Observed(t, called, c, v) ==
    IF ~called THEN t
    ELSE IF c = "raise" \/ (t.job = "optimize" /\ c = "true" /\ v = "raise")
    THEN [t EXCEPT !.sawRaise = @ + 1]
    ELSE IF c = "true" /\ (t.job = "reindex" \/ v = "true")
    THEN [t EXCEPT !.saidDone = @ + 1]
    ELSE [t EXCEPT !.saidNotDone = @ + 1]

\* the collaborator results the loop body can observe for one item
BodyResults(job, has_session) ==
    {cv \in Results \X Results :
        /\ (job = "reindex" \/ cv[1] # "true") => cv[2] = "true"
        /\ (job = "reindex" /\ ~has_session) => cv[1] = "true"}

\* the enumeration yields a generative table and the loop body runs on it
IterTable(w) ==
    /\ InPass(w)
    /\ LET t == ticks[w]
             a == Advance(t.cur, NoFailure)
         IN  /\ a.kind = "table"
             /\ LET path == TablePath(a.cur.ti, a.cur.ki, Head(a.cur.page))
                    t1 == [t EXCEPT !.yielded = Append(@, path),
                                    !.yieldedSess = Append(@, a.cur.sid),
                                    !.cur = [a.cur EXCEPT !.page = Tail(@)]]
                IN  \E cv \in BodyResults(t.job, TRUE) :
                       ticks' = [ticks EXCEPT ![w] =
                          LoopBody(Observed(t1, TRUE, cv[1], cv[2]), TRUE, path, cv[1], cv[2])]
    /\ UNCHANGED <<lock, exceptMaint>>

\* the enumeration yields a project's file table (session None) and the body runs on it
IterFile(w) ==
    /\ InPass(w)
    /\ LET t == ticks[w]
             a == Advance(t.cur, NoFailure)
         IN  /\ a.kind = "file"
             /\ LET path == FilePath(a.cur.ti)
                    t1 == [t EXCEPT !.yielded = Append(@, path),
                                    !.yieldedSess = Append(@, NoSession),
                                    !.cur = [a.cur EXCEPT !.ti = @ + 1, !.ki = 1]]
                IN  \E cv \in BodyResults(t.job, FALSE) :
                       ticks' = [ticks EXCEPT ![w] =
                          LoopBody(Observed(t1, t.job = "optimize", cv[1], cv[2]),
                                   FALSE, path, cv[1], cv[2])]
    /\ UNCHANGED <<lock, exceptMaint>>

\* an abort that returns without leaving the lock's with block
IterRaiseKeepingLock(w) ==
    /\ InPass(w)
    /\ LET t == ticks[w] IN
       /\ Advance(t.cur, 0).kind = "raise"
       /\ ticks' = [ticks EXCEPT ![w] = Returned(t, "error")]
       /\ lock' = lock
    /\ UNCHANGED exceptMaint

\* the enumeration raises in create_session or list_meta: the exception leaves
\* the for loop and the with block (session closed, lock released) and
\* "except Exception" logs it
IterRaise(w) ==
    /\ InPass(w)
    /\ LET t == ticks[w] IN
       /\ Advance(t.cur, 0).kind = "raise"
       /\ ticks' = [ticks EXCEPT ![w] = Returned(t, "error")]
       /\ lock' = [lock EXCEPT ![t.job] = NoHolder]
    /\ UNCHANGED exceptMaint

\* a summary line that reports the OK count alone
SummaryTotalOkOnly(t) == t.num_ok

\* "completed (a OK, b skipped, c failed)": the line is kept in the log as
\* "completed" and, in summary, by the total of the counts it reports
SummaryTotal(t) == t.num_ok + t.num_skipped + t.num_failed

\* the enumeration is exhausted: the with block is left (lock released), the
\* summary line is logged and the function returns
FinishPass(w) ==
    /\ InPass(w)
    /\ LET t == ticks[w]
           a == Advance(t.cur, NoFailure)
       IN  /\ a.kind = "stop"
           /\ ticks' = [ticks EXCEPT ![w] =
                  [Returned(t, "completed") EXCEPT !.summary = <<SummaryTotal(t)>>]]
           /\ lock' = [lock EXCEPT ![t.job] = NoHolder]
    /\ UNCHANGED exceptMaint

MaintNext ==
    \E w \in Workers :
       \/ \E j \in Jobs : Tick(w, j)
       \/ IterTable(w)
       \/ IterFile(w)
       \/ IterRaise(w)
       \/ FinishPass(w)


(***************************************************************************)
(* Row requests: add_rows, regen_rows, update_row, delete_rows on one      *)
(* table.  One request is followed through its handler; OtherWriter is the *)
(* effect of the concurrent requests on the same table.                    *)
(***************************************************************************)
owl_immediate_reindex_max_rows == 2000
\* the table's row count ranges within RowSpan of the threshold
RowSpan == 2
\* largest number of rows one request adds or deletes
MaxBodyRows == 2

RowsLo == owl_immediate_reindex_max_rows - RowSpan
RowsHi == owl_immediate_reindex_max_rows + RowSpan

Ops == {"add_rows", "regen_rows", "update_row", "delete_rows"}
Intents == {"true", "false", "none"}
TableTypes == {"action", "knowledge", "chat"}

\* column names, as their characters
TextEmbed == <<"T", "e", "x", "t", " ", "E", "m", "b", "e", "d">>
TitleEmbed == <<"T", "i", "t", "l", "e", " ", "E", "m", "b", "e", "d">>
TITLE_EMBED == <<"T", "I", "T", "L", "E", " ", "E", "M", "B", "E", "D">>
text_embed == <<"t", "e", "x", "t", " ", "e", "m", "b", "e", "d">>
title_embed == <<"t", "i", "t", "l", "e", " ", "e", "m", "b", "e", "d">>
TextEmbeds == <<"T", "e", "x", "t", " ", "E", "m", "b", "e", "d", "s">>
Title == <<"T", "i", "t", "l", "e">>
Age == <<"A", "g", "e">>

\* str.lower()
LowerChar(c) ==
    CASE c = "A" -> "a" [] c = "B" -> "b" [] c = "D" -> "d" [] c = "E" -> "e"
      [] c = "I" -> "i" [] c = "L" -> "l" [] c = "M" -> "m" [] c = "T" -> "t"
      [] OTHER -> c
Lower(name) == [i \in 1..Len(name) |-> LowerChar(name[i])]

\* the keys of body.data of the update requests
UpdatePayloads ==
    { {Age}, {TextEmbed}, {TITLE_EMBED}, {Age, text_embed}, {Title, TextEmbeds} }

Payloads(op) == IF op = "update_row" THEN UpdatePayloads ELSE {{}}

NoRequest ==
    [op |-> "none", ttype |-> "action", data |-> {},
     reindex |-> "none", n |-> 0, pc |-> "none", step |-> 1,
     scheduled |-> 0, seen |-> -1, written |-> FALSE, decidedAfterWrite |-> FALSE,
     afterWrite |-> -1, sess |-> "none", taskSess |-> "none", error |-> "none"]

RowsInit ==
    /\ rows \in RowsLo..RowsHi
    /\ req = NoRequest

\* the reindex condition with a strict comparison
ShouldReindexStrict(reindex, count) ==
    reindex = "true" \/ (reindex = "none" /\ count < owl_immediate_reindex_max_rows)

\* body.reindex or (body.reindex is None and count_rows <= threshold)
ShouldReindex(reindex, count) ==
    reindex = "true" \/ (reindex = "none" /\ count <= owl_immediate_reindex_max_rows)

\* handlers that all decide on the reindex after their write
HandlerStepsWriteFirst(op) == <<"write", "decide">>

\* the order of the two statements of each handler: add_rows and regen_rows
\* decide on the reindex and then run the executor; update_row and
\* delete_rows change the rows and then decide
HandlerSteps(op) ==
    IF op \in {"add_rows", "regen_rows"} THEN <<"decide", "write">>
    ELSE <<"write", "decide">>

\* rows of the table after the request's write
WriteEffect(op, n, count) ==
    CASE op = "add_rows" -> count + n
      [] op = "delete_rows" -> IF n <= count THEN count - n ELSE 0
      [] OTHER -> count

\* a comparison of the payload's column names as they are written
FixedColumnInPayloadExact(op, ttype, data) ==
    /\ op = "update_row"
    /\ ttype = "knowledge"
    /\ TextEmbed \in data \/ TitleEmbed \in data

\* update_row's check on a knowledge table: a lower-cased column name of the
\* payload is "text embed" or "title embed"
FixedColumnInPayload(op, ttype, data) ==
    /\ op = "update_row"
    /\ ttype = "knowledge"
    /\ LET col_names == {Lower(name) : name \in data}
       IN  text_embed \in col_names \/ title_embed \in col_names

\* a request is received by its handler; update_row raises
\* TableSchemaFixedError before it creates a session, and "except
\* OwlException: raise" passes the error on
Arrive(op, ttype, data, intent, n) ==
    /\ req.pc = "none"
    /\ rows \in RowsLo..RowsHi
    /\ LET r == [NoRequest EXCEPT !.op = op, !.ttype = ttype, !.data = data,
                                  !.reindex = intent, !.n = n, !.pc = "running"]
       IN  req' = IF FixedColumnInPayload(op, ttype, data)
                  THEN [r EXCEPT !.pc = "failed", !.error = "TableSchemaFixedError"]
                  ELSE [r EXCEPT !.sess = IF HandlerSteps(op)[1] = "write"
                                          THEN "open" ELSE "none"]
    /\ UNCHANGED <<rows, exceptRows>>

AtStep(kind) ==
    /\ req.pc = "running"
    /\ req.step <= Len(HandlerSteps(req.op))
    /\ HandlerSteps(req.op)[req.step] = kind

\* the handler returns after its last step, leaving its with block
Advanced(r) ==
    IF r.step = Len(HandlerSteps(r.op))
    THEN [r EXCEPT !.step = @ + 1, !.pc = "responded",
                   !.sess = IF @ = "open" THEN "closed" ELSE @]
    ELSE [r EXCEPT !.step = @ + 1]

\* the handler raises: its with block closes the session, no response body
Failed(r) ==
    [r EXCEPT !.pc = "failed", !.error = "Exception",
              !.sess = IF @ = "open" THEN "closed" ELSE @]

\* the reindex decision: bg_tasks.add_task when the condition holds; add_rows
\* and regen_rows open a session for the add_task call alone
Decide ==
    /\ AtStep("decide")
    /\ LET go == ShouldReindex(req.reindex, rows)
           own == req.sess = "none"
           r1 == [req EXCEPT !.seen = rows,
                             !.decidedAfterWrite = req.written,
                             !.scheduled = IF go THEN @ + 1 ELSE @,
                             !.sess = IF go /\ own THEN "closed" ELSE @]
       IN  req' = Advanced(r1)
    /\ UNCHANGED <<rows, exceptRows>>

\* count_rows or create_session raises while the decision is made
DecideRaises ==
    /\ AtStep("decide")
    /\ \/ req.reindex = "none"
       \/ req.reindex = "true" /\ req.sess = "none"
    /\ req' = Failed(req)
    /\ UNCHANGED <<rows, exceptRows>>

\* the rows are written: executor.gen_rows, update_rows or delete_rows
Write ==
    /\ AtStep("write")
    /\ rows' = WriteEffect(req.op, req.n, rows)
    /\ req' = Advanced([req EXCEPT !.written = TRUE, !.afterWrite = rows'])
    /\ UNCHANGED exceptRows

\* the write raises
WriteRaises ==
    /\ AtStep("write")
    /\ req' = Failed(req)
    /\ UNCHANGED <<rows, exceptRows>>

\* after the response the scheduled background tasks run
RunBackground ==
    /\ req.pc = "responded"
    /\ req' = [req EXCEPT !.pc = "done",
                          !.taskSess = IF req.scheduled > 0 THEN req.sess ELSE @]
    /\ UNCHANGED <<rows, exceptRows>>

\* the request is over: its response or its error has been delivered and
\* its background tasks have run
Finished ==
    /\ req.pc \in {"done", "failed"}
    /\ req' = NoRequest
    /\ UNCHANGED <<rows, exceptRows>>

\* a concurrent request adds or removes a row of the same table
OtherWriter ==
    /\ \E d \in {-1, 1} :
          /\ rows + d \in RowsLo..RowsHi
          /\ rows' = rows + d
    /\ UNCHANGED <<req, exceptRows>>

RowsNext ==
    \/ \E op \in Ops : \E ttype \in TableTypes : \E data \in Payloads(op) :
          \E intent \in Intents : \E n \in 1..MaxBodyRows :
             Arrive(op, ttype, data, intent, n)
    \/ Decide
    \/ DecideRaises
    \/ Write
    \/ WriteRaises
    \/ RunBackground
    \/ Finished
    \/ OtherWriter

(***************************************************************************)
(* MultiRowsGenExecutor.gen_rows: the column computations of the rows of   *)
(* one request run concurrently, in batches of rows and of columns, and    *)
(* their results are emitted as events (stream) or returned as a list.     *)
(***************************************************************************)
owl_concurrent_rows_batch_size == 3
owl_concurrent_cols_batch_size == 5
\* rows and generated columns of the request
NumGenRows == 3
NumGenCols == 2

Cells == (1..NumGenRows) \X (1..NumGenCols)

\* position of a cell in the order declared by the request: rows, then columns
Position(cell) == (cell[1] - 1) * NumGenCols + cell[2]
CellAt(i) == CHOOSE cell \in Cells : Position(cell) = i

RowBatch(r) == (r - 1) \div owl_concurrent_rows_batch_size
ColBatch(c) == (c - 1) \div owl_concurrent_cols_batch_size

Completed(cell) == gen.st[cell] \in {"buffered", "emitted"}

GenInit ==
    gen \in [stream : BOOLEAN,
             st : {[cell \in Cells |-> "pending"]},
             out : {<<>>},
             early : {{}}]

\* a computation starts once the earlier row batches and, within its row,
\* the earlier column batches have completed
Start(cell) ==
    /\ gen.st[cell] = "pending"
    /\ \A other \in Cells :
          (RowBatch(other[1]) < RowBatch(cell[1])
             \/ (other[1] = cell[1] /\ ColBatch(other[2]) < ColBatch(cell[2])))
          => Completed(other)
    /\ gen' = [gen EXCEPT !.st[cell] = "running"]
    /\ UNCHANGED exceptGen

\* a computation completes, in any order; its result is buffered
Complete(cell) ==
    /\ gen.st[cell] = "running"
    /\ gen' = [gen EXCEPT !.st[cell] = "buffered",
                          !.early = IF \E other \in Cells :
                                         /\ Position(other) < Position(cell)
                                         /\ ~Completed(other)
                                    THEN @ \cup {cell} ELSE @]
    /\ UNCHANGED exceptGen

\* a buffered result is emitted whatever its position
EmitReadyAny(cell) == gen.st[cell] = "buffered"

\* a buffered result is emitted when it is the next one in declared order
EmitReady(cell) ==
    /\ gen.st[cell] = "buffered"
    /\ Position(cell) = Len(gen.out) + 1

\* the next result goes out: at once when streaming, otherwise when the
\* whole list is returned
Emit(cell) ==
    /\ EmitReady(cell)
    /\ gen.stream \/ \A other \in Cells : Completed(other)
    /\ gen' = [gen EXCEPT !.st[cell] = "emitted", !.out = Append(@, cell)]
    /\ UNCHANGED exceptGen

GenNext ==
    \E cell \in Cells :
       \/ Start(cell)
       \/ Complete(cell)
       \/ Emit(cell)

(***************************************************************************)
(* upload_file and _add_file: one uploaded file is registered in the file  *)
(* table, split, titled, embedded and added to a knowledge table.          *)
(***************************************************************************)
\* largest number of chunks the splitter returns
MaxChunks == 2
\* largest number of content bytes of the uploaded file
MaxContent == 2

block_size == 2 ^ 10

None == "None"
Quote == "\""

\* range(0, len(content), block_size): the blocks handed to hasher.update
RECURSIVE Blocks(_, _, _)
Blocks(content, i, size) ==
    IF i >= Len(content) THEN <<>>
    ELSE <<SubSeq(content, i + 1, Min(i + size, Len(content)))>>
         \o Blocks(content, i + size, size)

\* the hasher's digest is a function of the bytes it was fed, in order
RECURSIVE Fed(_)
Fed(blocks) == IF blocks = <<>> THEN <<>> ELSE Head(blocks) \o Fed(Tail(blocks))

\* a digest of the full blocks alone, without the shorter last block
ChecksumOfFullBlocks(content, size) ==
    <<"blake2b", SubSeq(content, 1, (Len(content) \div size) * size)>>

\* hasher.update on each block, then hexdigest
Checksum(content, size) == <<"blake2b", Fed(Blocks(content, 0, size))>>

Contents == UNION {[1..n -> {7}] : n \in 0..MaxContent}

\* str.strip() on a text given as its characters
RECURSIVE LStrip(_)
LStrip(t) == IF t # <<>> /\ Head(t) = " " THEN LStrip(Tail(t)) ELSE t
RECURSIVE RStrip(_)
RStrip(t) == IF t # <<>> /\ t[Len(t)] = " " THEN RStrip(SubSeq(t, 1, Len(t) - 1)) ELSE t
Strip(t) == RStrip(LStrip(t))

\* response.text.strip(), then one pair of surrounding quotes removed
CleanTitle(text) ==
    LET t == Strip(text)
    IN  IF t # <<>> /\ Head(t) = Quote /\ t[Len(t)] = Quote
        THEN SubSeq(t, 2, Len(t) - 1)
        ELSE t

\* the texts predict can answer with
Responses == {<<"G">>, <<Quote, "G", Quote>>, <<" ", "G", " ">>, <<Quote>>}

\* _embed: the unit-norm vector of a text
Emb(text) == <<"unit", text>>

\* embedder.embed_documents returning k vectors for the texts
Vectors(texts, k) ==
    [i \in 1..k |-> IF i <= Len(texts) THEN Emb(texts[i]) ELSE Emb(<<"?">>)]

ChunkTexts(n) == [i \in 1..n |-> <<"c", i>>]

Col(id, vlen) == [id |-> id, vlen |-> vlen]

\* column sets of the target table
Schemas ==
    { <<Col("Text", 0), Col("Title Embed", 8), Col("Text Embed", 8)>>,
      <<Col("Text", 0), Col("Text Embed", 8)>>,
      <<Col("Text", 0), Col("Title Embed", 8)>>,
      <<Col("Other Embed", 8), Col("Text Embed", 8), Col("Title Embed", 8)>> }

NewUpload ==
    [pc |-> "received", content |-> <<>>, file_id |-> None, chunks |-> <<>>,
     title |-> None, titleFailed |-> FALSE, col |-> 0,
     title_embed |-> None, text_embeds |-> <<>>, loopDone |-> FALSE,
     sess |-> "none", addRequests |-> <<>>, events |-> <<>>, bg |-> <<>>,
     error |-> "none"]

UpInit ==
    /\ up \in {[NewUpload EXCEPT !.content = c] : c \in Contents}
    /\ kt \in [cols : Schemas,
               base : {0, owl_immediate_reindex_max_rows + 1},
               added : {<<>>}]
    /\ files = <<>>

\* an exception leaves _add_file and upload_file: the session is closed by
\* its with block, the error is logged and re-raised
UploadFailed(u, kind) ==
    [u EXCEPT !.pc = "failed", !.error = kind,
              !.sess = IF @ = "open" THEN "closed" ELSE @]

\* the upload goes on to the knowledge table with an identifier the file
\* table holds no record for
RegisterDeferred ==
    /\ up.pc = "received"
    /\ up' = [up EXCEPT !.pc = "registered", !.file_id = <<"file", Len(files) + 1>>]
    /\ UNCHANGED <<kt, files, exceptUp>>

\* upload_file: the checksum is computed and the file is registered
Register ==
    /\ up.pc = "received"
    /\ LET id == <<"file", Len(files) + 1>>
       IN  /\ files' = Append(files, [id |-> id, content |-> up.content,
                                      checksum |-> Checksum(up.content, block_size)])
           /\ up' = [up EXCEPT !.pc = "registered", !.file_id = id]
    /\ UNCHANGED <<kt, exceptUp>>

\* file.read, _get_file_table or add_file raises: nothing was registered
RegisterRaises ==
    /\ up.pc = "received"
    /\ up' = UploadFailed(up, "other")
    /\ UNCHANGED <<kt, files, exceptUp>>

\* load_file and split_chunks return the chunks
Split(n) ==
    /\ up.pc = "registered"
    /\ up' = [up EXCEPT !.pc = "split", !.chunks = ChunkTexts(n)]
    /\ UNCHANGED <<kt, files, exceptUp>>

\* load_file or split_chunks raises
SplitRaises ==
    /\ up.pc = "registered"
    /\ up' = UploadFailed(up, "other")
    /\ UNCHANGED <<kt, files, exceptUp>>

\* model_names returns a non-empty list and model[0] is taken
ChooseModel ==
    /\ up.pc = "split"
    /\ up' = [up EXCEPT !.pc = "chosen"]
    /\ UNCHANGED <<kt, files, exceptUp>>

\* model_names raises, or returns an empty list and model[0] raises
ChooseModelRaises ==
    /\ up.pc = "split"
    /\ up' = UploadFailed(up, "other")
    /\ UNCHANGED <<kt, files, exceptUp>>

\* predict answers: the title is the cleaned answer
TitleExtracted(text) ==
    /\ up.pc = "chosen"
    /\ up' = [up EXCEPT !.pc = "titled", !.title = CleanTitle(text)]
    /\ UNCHANGED <<kt, files, exceptUp>>

\* "except Exception": the title falls back to the empty string
TitleOnError(u) == [u EXCEPT !.pc = "titled", !.title = <<>>, !.titleFailed = TRUE]

\* predict (or the cleaning of its answer) raises
TitleFails ==
    /\ up.pc = "chosen"
    /\ up' = TitleOnError(up)
    /\ UNCHANGED <<kt, files, exceptUp>>

\* the session is created and the table's metadata opened
OpenTable ==
    /\ up.pc = "titled"
    /\ up' = [up EXCEPT !.pc = "embedding", !.sess = "open", !.col = 1]
    /\ UNCHANGED <<kt, files, exceptUp>>

\* create_session or open_meta raises
OpenTableRaises ==
    /\ up.pc = "titled"
    /\ up' = UploadFailed(up, "other")
    /\ UNCHANGED <<kt, files, exceptUp>>

InLoop == up.pc = "embedding" /\ up.col <= Len(kt.cols)

\* one iteration of "for col in meta.cols"; k is the number of vectors the
\* embedder returns for the texts it is given
EmbedColumn(k) ==
    /\ InLoop
    /\ LET c == kt.cols[up.col]
           next == [up EXCEPT !.col = @ + 1]
       IN  CASE c.vlen = 0 ->
                  /\ k = 0
                  /\ up' = next
             [] c.id = "Title Embed" ->
                  /\ k >= 1
                  /\ up' = [next EXCEPT !.title_embed = Vectors(<<up.title>>, k)[1]]
             [] c.id = "Text Embed" ->
                  up' = [next EXCEPT !.text_embeds = Vectors(up.chunks, k)]
             [] OTHER ->
                  /\ k = 0
                  /\ up' = next
    /\ UNCHANGED <<kt, files, exceptUp>>

\* the configuration, the key lookup, the embedder, the normalisation or the
\* indexing of an empty result raises for an embedding column
EmbedRaises ==
    /\ InLoop
    /\ kt.cols[up.col].vlen # 0
    /\ up' = UploadFailed(up, "other")
    /\ UNCHANGED <<kt, files, exceptUp>>

\* a check that fails only when both embeddings are missing
EmbeddingsMissingBoth(u) == u.title_embed = None /\ Len(u.text_embeds) = 0

\* title_embed is None or len(text_embeds) == 0
EmbeddingsMissing(u) == u.title_embed = None \/ Len(u.text_embeds) = 0

\* after the loop: the generic error, or on to the rows
Check ==
    /\ up.pc = "embedding"
    /\ up.col > Len(kt.cols)
    /\ LET u == [up EXCEPT !.loopDone = TRUE]
       IN  up' = IF EmbeddingsMissing(u) THEN UploadFailed(u, "generic")
                 ELSE [u EXCEPT !.pc = "checked"]
    /\ UNCHANGED <<kt, files, exceptUp>>

\* row_add_data: one row for each pair of zip(chunks, text_embeds)
RowAddData(u) ==
    [i \in 1..Min(Len(u.chunks), Len(u.text_embeds)) |->
        [Text |-> u.chunks[i], TextEmbed |-> u.text_embeds[i],
         Title |-> u.title, TitleEmbed |-> u.title_embed, FileID |-> u.file_id]]

\* add_rows as called by _add_file: reindex unset, stream False
Submitted(u) ==
    LET body == [stream |-> FALSE, reindex |-> "none", data |-> RowAddData(u)]
        go == ShouldReindex(body.reindex, kt.base + Len(kt.added))
    IN  [u EXCEPT !.addRequests = Append(@, body),
                  !.bg = IF go THEN Append(@, "create_indexes") ELSE @]

\* await add_rows(...) returns: the rows of the request are in the table
AddRows ==
    /\ up.pc = "checked"
    /\ LET u == Submitted(up)
       IN  /\ kt' = [kt EXCEPT !.added = @ \o RowAddData(up)]
           /\ up' = [u EXCEPT !.pc = "added", !.events = Append(@, "add_rows")]
    /\ UNCHANGED <<files, exceptUp>>

\* add_rows raises after j of the rows were written
AddRowsRaises(j) ==
    /\ up.pc = "checked"
    /\ j <= Len(RowAddData(up))
    /\ kt' = [kt EXCEPT !.added = @ \o SubSeq(RowAddData(up), 1, j)]
    /\ up' = UploadFailed(Submitted(up), "other")
    /\ UNCHANGED <<files, exceptUp>>

\* the index build handed to the background tasks instead
ReindexDeferred(u) == [u EXCEPT !.bg = Append(@, "create_indexes")]

\* table.create_indexes(session, table_id), called in line after add_rows
ReindexNow(u) == [u EXCEPT !.events = Append(@, "create_indexes")]

\* the index build runs and returns
SyncReindex ==
    /\ up.pc = "added"
    /\ up' = [ReindexNow(up) EXCEPT !.pc = "indexed"]
    /\ UNCHANGED <<kt, files, exceptUp>>

\* the index build raises
SyncReindexRaises ==
    /\ up.pc = "added"
    /\ up' = UploadFailed(up, "other")
    /\ UNCHANGED <<kt, files, exceptUp>>

\* the with block is left and OkResponse is returned
Respond ==
    /\ up.pc = "indexed"
    /\ up' = [up EXCEPT !.pc = "done", !.sess = "closed",
                        !.events = Append(@, "response")]
    /\ UNCHANGED <<kt, files, exceptUp>>

\* after the response the background tasks of the request run
UploadBackground ==
    /\ up.pc = "done"
    /\ up' = [up EXCEPT !.pc = "finished",
                        !.events = @ \o [i \in 1..Len(up.bg) |-> <<"background", up.bg[i]>>]]
    /\ UNCHANGED <<kt, files, exceptUp>>

UpNext ==
    \/ Register
    \/ RegisterRaises
    \/ \E n \in 0..MaxChunks : Split(n)
    \/ SplitRaises
    \/ ChooseModel
    \/ ChooseModelRaises
    \/ \E text \in Responses : TitleExtracted(text)
    \/ TitleFails
    \/ OpenTable
    \/ OpenTableRaises
    \/ \E k \in 0..(MaxChunks + 1) : EmbedColumn(k)
    \/ EmbedRaises
    \/ Check
    \/ AddRows
    \/ \E j \in 0..MaxChunks : AddRowsRaises(j)
    \/ SyncReindex
    \/ SyncReindexRaises
    \/ Respond
    \/ UploadBackground

(***************************************************************************)
(* The checksum of upload_file as a function of the content and the block  *)
(* size, applied to contents of several bytes and to small block sizes.    *)
(***************************************************************************)
\* largest number of bytes of a hashed content
MaxHashLen == 5
\* largest of the small block sizes
MaxBlock == 3

Bytes == {0, 1}
HashContents == UNION {[1..n -> Bytes] : n \in 0..MaxHashLen}
BlockSizes == (1..MaxBlock) \cup {block_size}

\* the first content is the empty one; NextContent reads the longer ones
HashInit ==
    hash \in [content : {<<>>}, size : BlockSizes, pc : {"read"}, digest : {None}]

\* the loop over the blocks and hasher.hexdigest()
ComputeChecksum ==
    /\ hash.pc = "read"
    /\ hash' = [hash EXCEPT !.pc = "hashed",
                            !.digest = Checksum(hash.content, hash.size)]
    /\ UNCHANGED exceptHash

\* the next content is read
NextContent ==
    /\ hash.pc = "hashed"
    /\ \E c \in HashContents :
          /\ Len(c) = (Len(hash.content) + 1) % (MaxHashLen + 1)
          /\ hash' = [hash EXCEPT !.pc = "read", !.digest = None, !.content = c]
    /\ UNCHANGED exceptHash

HashNext == ComputeChecksum \/ NextContent

(***************************************************************************)
(* Specifications: one per part of the router, the other parts at rest.    *)
(***************************************************************************)
MaintIdle ==
    /\ lock = [j \in Jobs |-> NoHolder]
    /\ ticks = [w \in Workers |-> IdleTick]

RowsIdle ==
    /\ rows = owl_immediate_reindex_max_rows
    /\ req = NoRequest

GenIdle ==
    gen = [stream |-> FALSE, st |-> [cell \in Cells |-> "pending"],
           out |-> <<>>, early |-> {}]

UpIdle ==
    /\ up = NewUpload
    /\ kt = [cols |-> <<>>, base |-> 0, added |-> <<>>]
    /\ files = <<>>

HashIdle == hash = [content |-> <<>>, size |-> block_size, pc |-> "read", digest |-> None]

InitMaint == MaintInit /\ RowsIdle /\ GenIdle /\ UpIdle /\ HashIdle
InitRows == MaintIdle /\ RowsInit /\ GenIdle /\ UpIdle /\ HashIdle
InitGen == MaintIdle /\ RowsIdle /\ GenInit /\ UpIdle /\ HashIdle
InitUpload == MaintIdle /\ RowsIdle /\ GenIdle /\ UpInit /\ HashIdle
InitChecksum == MaintIdle /\ RowsIdle /\ GenIdle /\ UpIdle /\ HashInit

SpecMaint == InitMaint /\ [][MaintNext]_vars

\* repeat_every keeps calling each periodic function
TickOf(j) == \E w \in Workers : Tick(w, j)

SpecMaintFair ==
    /\ InitMaint
    /\ [][MaintNext]_vars
    /\ \A j \in Jobs : WF_vars(TickOf(j))

SpecRows == InitRows /\ [][RowsNext]_vars

SpecGen == InitGen /\ [][GenNext]_vars

SpecUpload == InitUpload /\ [][UpNext]_vars

SpecChecksum == InitChecksum /\ [][HashNext]_vars

(***************************************************************************)
(* Properties of the maintenance scheduler.                                *)
(***************************************************************************)
\* the tables a complete pass of a job calls maintenance on, in order
RECURSIVE ExpectedVisits(_, _)
ExpectedVisits(ti, job) ==
    IF ti > Len(Tenants) THEN <<>>
    ELSE LET paths(ki) == [i \in 1..Len(StoreTables(ti, ki)) |->
                            TablePath(ti, ki, StoreTables(ti, ki)[i])]
         IN  paths(1) \o paths(2) \o paths(3)
             \o (IF job = "optimize" THEN <<FilePath(ti)>> ELSE <<>>)
             \o ExpectedVisits(ti + 1, job)

\* C1: for each job type taken separately, at most one execution is between
\* acquiring and releasing that job's lock at any time.
C1_MutualExclusion ==
    \A j \in Jobs :
       Cardinality({w \in Workers : InPass(w) /\ ticks[w].job = j}) <= 1

\* one execution is inside the reindex pass while another one, which found
\* the lock held, has been turned away; a third job runs beside them or not
C1_Witness ==
    \E w1, w2 \in Workers :
       /\ w1 # w2
       /\ InPass(w1) /\ ticks[w1].job = "reindex" /\ lock["reindex"] = w1
       /\ ticks[w2].job = "reindex" /\ ticks[w2].foundHeld

\* C2: a tick that finds its job's lock held attempts the acquisition once,
\* does not wait or retry (it has returned), visits no table, calls no
\* maintenance operation, and logs "skipped" and nothing else.
C2_ContendedTickSkips ==
    \A w \in Workers :
       ticks[w].foundHeld =>
          /\ ticks[w].attempts = 1
          /\ ticks[w].pc = "idle"
          /\ ticks[w].yielded = <<>> /\ ticks[w].visits = <<>>
          /\ ticks[w].lastCalls = <<>>
          /\ ticks[w].num_ok + ticks[w].num_skipped + ticks[w].num_failed = 0
          /\ ticks[w].log = <<"skipped">>

\* an optimize tick was turned away while another execution holds the lock
C2_Witness ==
    \E w, h \in Workers :
       /\ ticks[w].foundHeld /\ ticks[w].job = "optimize"
       /\ lock["optimize"] = h /\ h # w /\ ticks[h].visits # <<>>

\* C3 as stated: whatever error is raised while a table is visited or
\* enumerated, the pass that ends has called maintenance on every table of
\* every tenant.
C3_Original ==
    [][\A w \in Workers :
          (InPass(w) /\ ~InPass(w)') =>
             ticks[w].visits = ExpectedVisits(1, ticks[w].job)]_vars

\* C3 amended: an error raised by the index build, the compaction or the
\* version cleanup of a table is counted as failed and the pass goes on, so a
\* pass that reaches its summary has visited every table of every tenant and
\* counted every such error; only an error of the enumeration itself ends
\* the pass early.
C3_PerTableFailureIsolated ==
    [][\A w \in Workers :
          /\ (InPass(w) /\ ticks[w].raised' > ticks[w].raised) =>
                /\ InPass(w)'
                /\ ticks[w].num_failed' = ticks[w].num_failed + 1
                /\ ticks[w].num_ok' = ticks[w].num_ok
                /\ ticks[w].num_skipped' = ticks[w].num_skipped
                /\ Len(ticks[w].visits') = Len(ticks[w].visits) + 1
          /\ (InPass(w) /\ ~InPass(w)') =>
                \/ /\ ticks[w].log' = <<"started", "completed">>
                   /\ ticks[w].visits = ExpectedVisits(1, ticks[w].job)
                   /\ ticks[w].num_failed = ticks[w].raised
                \/ /\ ticks[w].log' = <<"started", "error">>
                   /\ Advance(ticks[w].cur, 0).kind = "raise"
       ]_vars

\* a pass in which two visits failed has nevertheless reached its last table
C3_Witness ==
    \E w \in Workers :
       /\ InPass(w)
       /\ ticks[w].num_failed >= 2
       /\ ticks[w].num_ok >= 1
       /\ ticks[w].visits = ExpectedVisits(1, ticks[w].job)

\* the summary lines among the lines of a log
SummaryLines(log) == SelectSeq(log, LAMBDA line : line = "completed")

\* C12 as stated: every execution that acquired its lock has, when its pass
\* ends, logged exactly one summary line.
C12_Original ==
    [][\A w \in Workers :
          (InPass(w) /\ ~InPass(w)') =>
             /\ Len(SummaryLines(ticks[w].log')) = 1
             /\ Len(ticks[w].summary') = 1]_vars

\* C12 amended: a pass whose enumeration runs to its end logs exactly one
\* summary line, when the enumeration is exhausted and with the lock
\* released, and the counts it reports add up to the number of tables the
\* pass called maintenance on; a pass aborted by an error of the enumeration
\* logs the error and no summary line; a tick turned away by contention
\* logs no summary line.
C12_OneSummaryPerCompletedPass ==
    [][\A w \in Workers :
          /\ (InPass(w) /\ ~InPass(w)') =>
                LET t == ticks[w] IN
                \/ /\ Advance(t.cur, NoFailure).kind = "stop"
                   /\ SummaryLines(t.log) = <<>>
                   /\ ticks[w].log' = Append(t.log, "completed")
                   /\ ticks[w].summary' = <<t.num_ok + t.num_skipped + t.num_failed>>
                   /\ ticks[w].summary'[1] = Len(t.visits)
                   /\ lock'[t.job] = NoHolder
                \/ /\ Advance(t.cur, 0).kind = "raise"
                   /\ ticks[w].log' = Append(t.log, "error")
                   /\ SummaryLines(ticks[w].log') = <<>>
                   /\ ticks[w].summary' = <<>>
          /\ (~InPass(w) /\ ~InPass(w)') =>
                /\ SummaryLines(ticks[w].log') = <<>> \/ ticks[w].log' = ticks[w].log
                /\ ticks[w].summary' = <<>> \/ ticks[w].summary' = ticks[w].summary
          /\ InPass(w)' => ticks[w].summary' = <<>> /\ SummaryLines(ticks[w].log') = <<>>
       ]_vars

\* an optimize pass has returned after its summary line, which counts every
\* table of every tenant, while a contended reindex tick logged none
C12_Witness ==
    \E w, v \in Workers :
       /\ ticks[w].job = "optimize" /\ ticks[w].pc = "idle"
       /\ ticks[w].log = <<"started", "completed">>
       /\ ticks[w].summary = <<Len(ExpectedVisits(1, "optimize"))>>
       /\ ticks[v].job = "reindex" /\ ticks[v].foundHeld
       /\ ticks[v].summary = <<>>

\* the tables under the storage root, read off its directories
ProjectPaths(org, d) ==
    {<<org, d.name, "action", d.action[i]>> : i \in 1..Len(d.action)}
    \cup {<<org, d.name, "knowledge", d.knowledge[i]>> : i \in 1..Len(d.knowledge)}
    \cup {<<org, d.name, "chat", d.chat[i]>> : i \in 1..Len(d.chat)}
    \cup {<<org, d.name, "file", "file">>}

AllTablePaths ==
    UNION {ProjectPaths(Root[o].name, Root[o].entries[q]) :
             <<o, q>> \in {oq \in (1..Len(Root)) \X (1..Len(Root)) :
                             /\ Root[oq[1]].is_dir
                             /\ oq[2] <= Len(Root[oq[1]].entries)
                             /\ Root[oq[1]].entries[oq[2]].is_dir}}

NoDuplicates(seq) == \A i, j \in 1..Len(seq) : seq[i] = seq[j] => i = j
Range(seq) == {seq[i] : i \in 1..Len(seq)}

Handed(w) == InPass(w) /\ Len(ticks[w].yielded') = Len(ticks[w].yielded) + 1
LastHanded(w) == ticks[w].yielded'[Len(ticks[w].yielded')]

\* the counters incremented by the step, as <<ok, skipped, failed>>
CounterSteps(w) ==
    <<ticks[w].num_ok' - ticks[w].num_ok,
      ticks[w].num_skipped' - ticks[w].num_skipped,
      ticks[w].num_failed' - ticks[w].num_failed>>

\* the answers of the storage operations in the step, as <<true, false, raise>>
AnswerSteps(w) ==
    <<ticks[w].saidDone' - ticks[w].saidDone,
      ticks[w].saidNotDone' - ticks[w].saidNotDone,
      ticks[w].sawRaise' - ticks[w].sawRaise>>

\* C15: in a reindex pass, a generative table handed to the loop has the
\* index build called on it once and increments one counter: ok when the
\* build answered true, skipped when it answered false, failed when it
\* raised; a file table handed to the loop has no build called on it and
\* increments no counter.
C15_ReindexOutcome ==
    [][\A w \in Workers :
          (Handed(w) /\ ticks[w].job = "reindex") =>
             IF LastHanded(w)[3] # "file"
             THEN /\ ticks[w].visits' = Append(ticks[w].visits, LastHanded(w))
                  /\ ticks[w].lastCalls' = <<"create_indexes">>
                  /\ CounterSteps(w) \in {<<1, 0, 0>>, <<0, 1, 0>>, <<0, 0, 1>>}
                  /\ CounterSteps(w) = AnswerSteps(w)
             ELSE /\ ticks[w].visits' = ticks[w].visits
                  /\ ticks[w].lastCalls' = <<>>
                  /\ CounterSteps(w) = <<0, 0, 0>>
                  /\ AnswerSteps(w) = <<0, 0, 0>>
       ]_vars

\* a reindex pass over all tables has counted one index already current and
\* one failure, and has passed both file tables without a build
C15_Witness ==
    \E w \in Workers :
       /\ InPass(w) /\ ticks[w].job = "reindex"
       /\ ticks[w].num_ok = 0 /\ ticks[w].num_skipped = 1 /\ ticks[w].num_failed = 1
       /\ Len(ticks[w].yielded) = Len(ticks[w].visits) + 2
       /\ ticks[w].lastCalls = <<>>

\* C16: in an optimize pass, every table handed to the loop, generative or
\* file table, increments one counter: ok when compaction and cleanup both
\* answered true, skipped when none raised and one answered false, failed
\* when one raised.
C16_OptimizeOutcome ==
    [][\A w \in Workers :
          (Handed(w) /\ ticks[w].job = "optimize") =>
             /\ ticks[w].visits' = Append(ticks[w].visits, LastHanded(w))
             /\ CounterSteps(w) \in {<<1, 0, 0>>, <<0, 1, 0>>, <<0, 0, 1>>}
             /\ CounterSteps(w) = AnswerSteps(w)
             /\ (CounterSteps(w) = <<1, 0, 0>>) =>
                   ticks[w].lastCalls' = <<"compact_files", "cleanup_old_versions">>
       ]_vars

\* an optimize pass has counted a file table as skipped after counting
\* generative tables as ok and as failed
C16_Witness ==
    \E w \in Workers :
       /\ InPass(w) /\ ticks[w].job = "optimize"
       /\ ticks[w].num_ok = 1 /\ ticks[w].num_failed = 1 /\ ticks[w].num_skipped = 1
       /\ ticks[w].saidNotDone = 1
       /\ ticks[w].visits[Len(ticks[w].visits)][3] = "file"
       /\ ticks[w].lastCalls = <<"compact_files", "cleanup_old_versions">>

\* C17 as stated: in an optimize pass, every visit in which compaction does
\* not raise calls compaction and then the cleanup of old versions, whatever
\* compaction answered.
C17_Original ==
    [][\A w \in Workers :
          (/\ Handed(w) /\ ticks[w].job = "optimize"
           /\ ~(/\ ticks[w].sawRaise' > ticks[w].sawRaise
                /\ ticks[w].lastCalls' = <<"compact_files">>)) =>
             ticks[w].lastCalls' = <<"compact_files", "cleanup_old_versions">>
       ]_vars

\* no session a request handler opened is open once the handler has
\* returned or raised
HandlerSessionsReleased ==
    /\ (req.pc \in {"responded", "done", "failed"}) => req.sess # "open"
    /\ (up.pc \in {"done", "finished", "failed"}) => up.sess # "open"

\* C18 as stated: no session is open after its handler has returned or
\* raised, and in a maintenance pass the session of the visit to one table
\* is acquired for that visit and released before the next table is
\* visited: no two visits of a pass use the same session.
C18_Original ==
    /\ HandlerSessionsReleased
    /\ \A w \in Workers :
          \A i, j \in 1..Len(ticks[w].yieldedSess) :
             (i < j /\ ticks[w].yieldedSess[i] # NoSession) =>
                ticks[w].yieldedSess[i] # ticks[w].yieldedSess[j]

\* the lock of a job is held by a worker exactly while that worker is in a
\* pass of the job
LockHeldDuringPassOnly ==
    \A j \in Jobs :
       /\ \A w \in Workers : (lock[j] = w) <=> (InPass(w) /\ ticks[w].job = j)
       /\ lock[j] \in Workers \cup {NoHolder}

\* every pass terminates: no worker stays in a pass for ever
EveryPassTerminates == \A w \in Workers : []<>(~InPass(w))

\* C20: a lock is held only while its pass runs, whichever way the pass
\* ends; if every pass terminates, a held lock becomes free again and a
\* free lock is acquired by a tick of its job, which runs its pass: each
\* lock is free again and again, and held by a running pass again and again.
C20_LockReleasedAndReacquired ==
    /\ []LockHeldDuringPassOnly
    /\ EveryPassTerminates =>
          \A j \in Jobs :
             /\ []<>(lock[j] = NoHolder)
             /\ []<>(\E w \in Workers : InPass(w) /\ ticks[w].job = j /\ lock[j] = w)

\* a reindex pass was aborted by an error of the enumeration, and a later
\* reindex tick of another worker has acquired the lock, visited a table
\* that failed and gone on
C20_Witness ==
    \E w, v \in Workers :
       /\ w # v
       /\ ticks[v].job = "reindex" /\ ticks[v].log = <<"started", "error">>
       /\ InPass(w) /\ ticks[w].job = "reindex" /\ lock["reindex"] = w
       /\ ticks[w].num_failed = 1 /\ Len(ticks[w].visits) = 2
       /\ lock["optimize"] = NoHolder

(***************************************************************************)
(* Properties of the row handlers' reindex trigger.                        *)
(***************************************************************************)
Decided(r) == r.seen >= 0

\* C4: a request of one of the four handlers that has reached its reindex
\* decision has scheduled a background reindex exactly when its intent is
\* true, or its intent is unset and the row count it read is at most the
\* threshold (equal schedules, above does not); with intent false never.
C4_ReindexPolicy ==
    Decided(req) =>
       /\ req.scheduled \in {0, 1}
       /\ (req.scheduled = 1) <=>
             \/ req.reindex = "true"
             \/ req.reindex = "none" /\ ~(req.seen > owl_immediate_reindex_max_rows)
       /\ (req.reindex = "false") => req.scheduled = 0

\* an update with unset intent read a count equal to the threshold and
\* scheduled the reindex
C4_Witness ==
    /\ req.op = "update_row" /\ req.reindex = "none" /\ req.pc = "done"
    /\ req.seen = owl_immediate_reindex_max_rows
    /\ req.scheduled = 1

\* C5 as stated: for a completed add or regenerate request with unset
\* intent, the reindex is scheduled exactly when the table's row count once
\* the request's rows were written is at most the threshold.
C5_Original ==
    (req.op \in {"add_rows", "regen_rows"} /\ req.reindex = "none"
        /\ req.pc \in {"responded", "done"}) =>
       ((req.scheduled = 1) <=> (req.afterWrite <= owl_immediate_reindex_max_rows))

\* C5 amended: add_rows and regen_rows decide on the reindex when the request
\* is received, before any of its rows is written: under unset intent the
\* count compared with the threshold is the table's row count at that moment.
C5_DecidedBeforeWrite ==
    [][(req.op \in {"add_rows", "regen_rows"} /\ ~Decided(req) /\ Decided(req')) =>
          /\ ~req.written
          /\ rows' = rows
          /\ (req.reindex = "none") =>
                ((req.scheduled' = 1) <=> (rows <= owl_immediate_reindex_max_rows))
      ]_vars

\* an add with unset intent found the table at the threshold, scheduled the
\* reindex, and its rows then took the table above the threshold
C5_Witness ==
    /\ req.op = "add_rows" /\ req.reindex = "none" /\ req.pc = "done"
    /\ req.seen = owl_immediate_reindex_max_rows
    /\ req.scheduled = 1
    /\ req.afterWrite > owl_immediate_reindex_max_rows

\* C11: an update_row request on a knowledge table whose payload has a
\* column name equal, ignoring case, to 'Text Embed' or 'Title Embed' has
\* failed with the schema-fixed error itself, without a session, a modified
\* row, a row count read or a scheduled reindex; no request on an action or
\* chat table fails with that error.
C11_FixedColumnRejected ==
    /\ (/\ req.op = "update_row" /\ req.ttype = "knowledge"
        /\ \E name \in req.data :
              Lower(name) = Lower(TextEmbed) \/ Lower(name) = Lower(TitleEmbed)) =>
          /\ req.pc = "failed" /\ req.error = "TableSchemaFixedError"
          /\ req.sess = "none" /\ req.taskSess = "none"
          /\ ~req.written /\ req.afterWrite = -1
          /\ req.seen = -1 /\ req.scheduled = 0
    /\ (req.ttype # "knowledge") => req.error # "TableSchemaFixedError"
    /\ (req.op = "update_row" /\ req.ttype # "knowledge" /\ req.pc = "failed") =>
          req.sess = "closed"

\* an update of 'TITLE EMBED' on a knowledge table has been rejected
C11_Witness ==
    /\ req.op = "update_row" /\ req.ttype = "knowledge"
    /\ req.data = {TITLE_EMBED}
    /\ req.pc = "failed" /\ req.error = "TableSchemaFixedError"
    /\ rows = owl_immediate_reindex_max_rows

\* C19 as stated: when the background reindex task a handler scheduled has
\* run, the session that was passed to it was open at that moment.
C19_Original ==
    (req.pc = "done" /\ req.scheduled > 0) => req.taskSess = "open"

(***************************************************************************)
(* Properties of the emission order.                                       *)
(***************************************************************************)
\* C6: the results emitted so far are the first results in (row position,
\* column position) order, whatever the order of completion; a result that
\* completed ahead of its turn waits in the buffer.
C6_EmittedInDeclaredOrder ==
    /\ \A i \in 1..Len(gen.out) : gen.out[i] = CellAt(i)
    /\ \A cell \in Cells :
          (gen.st[cell] = "emitted") <=> (Position(cell) <= Len(gen.out))

\* column B of row 1 completed before column A of row 1, and the streamed
\* sequence is A1, B1, A2, B2, ...
C6_Witness ==
    /\ gen.stream
    /\ <<1, 2>> \in gen.early
    /\ Len(gen.out) = Cardinality(Cells)
    /\ gen.out[1] = <<1, 1>> /\ gen.out[2] = <<1, 2>>
    /\ gen.out[3] = <<2, 1>> /\ gen.out[4] = <<2, 2>>

(***************************************************************************)
(* Properties of the file upload.                                          *)
(***************************************************************************)
Succeeded(u) == u.pc \in {"done", "finished"}

\* C7: when the columns have been processed and there is no title embedding
\* or no text embedding, the upload has failed with the generic ingestion
\* error and the knowledge table is unchanged: no row inserted, no add
\* request submitted, no index build run or scheduled.
C7_MissingEmbeddingFailsWhole ==
    (up.loopDone /\ (up.title_embed = None \/ Len(up.text_embeds) = 0)) =>
       /\ up.pc = "failed" /\ up.error = "generic"
       /\ kt.added = <<>>
       /\ up.addRequests = <<>>
       /\ up.events = <<>> /\ up.bg = <<>>

\* the file split into chunks and the title was embedded, but the table has
\* no 'Text Embed' column: the upload failed with the generic error
C7_Witness ==
    /\ up.error = "generic"
    /\ Len(up.chunks) > 0
    /\ up.title_embed # None
    /\ \A i \in 1..Len(kt.cols) : kt.cols[i].id # "Text Embed"
    /\ kt.added = <<>>

\* C8 as stated: when the title generation fails the title is the empty
\* string, the title embedding is that of the empty title, and an upload
\* that goes through has inserted one row per chunk, each with Title = "".
C8_Original ==
    up.titleFailed =>
       /\ up.title = <<>>
       /\ (up.title_embed # None) => up.title_embed = Emb(<<>>)
       /\ Succeeded(up) =>
             /\ Len(kt.added) = Len(up.chunks)
             /\ \A i \in 1..Len(kt.added) :
                   kt.added[i].Title = <<>> /\ kt.added[i].TitleEmbed = Emb(<<>>)

\* C9 as stated: a successful upload of n chunks has submitted one
\* non-streaming add request of exactly n rows in chunk order, row i with
\* chunk i's text and embedding, all rows with the same title, title
\* embedding and file id, and the table has exactly n rows more, whatever
\* number of vectors the embedder returned.
C9_Original ==
    Succeeded(up) =>
       /\ Len(up.addRequests) = 1
       /\ ~up.addRequests[1].stream
       /\ LET data == up.addRequests[1].data
          IN  /\ Len(data) = Len(up.chunks)
              /\ \A i \in 1..Len(data) :
                    /\ data[i].Text = up.chunks[i]
                    /\ data[i].TextEmbed = Emb(up.chunks[i])
                    /\ data[i].Title = up.title
                    /\ data[i].TitleEmbed = up.title_embed
                    /\ data[i].FileID = up.file_id
       /\ Len(kt.added) = Len(up.chunks)

\* C13: the digest of a content is that of its bytes, each once and in the
\* original order, whatever the block size: the blocks are consecutive, none
\* is empty or longer than the block size, they concatenate to the content,
\* and the digest equals the digest under every other block size, that of
\* upload_file included.
C13_ChecksumIndependentOfBlockSize ==
    (hash.pc = "hashed") =>
       LET blocks == Blocks(hash.content, 0, hash.size)
       IN  /\ hash.digest = <<"blake2b", hash.content>>
           /\ \A i \in 1..Len(blocks) :
                 /\ Len(blocks[i]) >= 1 /\ Len(blocks[i]) <= hash.size
                 /\ (i < Len(blocks)) => Len(blocks[i]) = hash.size
           /\ \A other \in BlockSizes :
                 hash.digest = Checksum(hash.content, other)
           /\ hash.digest = Checksum(hash.content, block_size)

\* a content of several blocks whose length is no multiple of the block size
\* and whose bytes differ has been hashed
C13_Witness ==
    /\ hash.pc = "hashed"
    /\ hash.size = 2 /\ Len(hash.content) = 5
    /\ hash.content[1] # hash.content[2]
    /\ hash.digest = <<"blake2b", hash.content>>

\* C10: in a successful upload the index build runs in line: after the add
\* request has returned and before the response, not as a background task.
C10_ReindexSynchronous ==
    /\ (up.pc = "added") => up.events = <<"add_rows">>
    /\ (up.pc = "indexed") => up.events = <<"add_rows", "create_indexes">>
    /\ Succeeded(up) =>
          SubSeq(up.events, 1, 3) = <<"add_rows", "create_indexes", "response">>

\* an upload has answered after adding its rows and building the index, and
\* the add request had scheduled no background task
C10_Witness ==
    /\ up.pc = "finished"
    /\ up.bg = <<>>
    /\ Len(kt.added) = MaxChunks
    /\ up.events = <<"add_rows", "create_indexes", "response">>

\* the file table holds the record of the upload: its identifier, its
\* content and the checksum of the content
Registered(u) ==
    \E i \in 1..Len(files) :
       files[i] = [id |-> u.file_id, content |-> u.content,
                   checksum |-> Checksum(u.content, block_size)]

\* nothing of _add_file has run: no chunk, no title, no embedding, no
\* session, no add request, no index build
BeforeAddFile(u) ==
    /\ u.chunks = <<>>
    /\ u.title = None /\ ~u.titleFailed
    /\ u.col = 0 /\ u.title_embed = None /\ u.text_embeds = <<>>
    /\ u.sess = "none"
    /\ u.addRequests = <<>> /\ u.events = <<>> /\ u.bg = <<>>

\* no row added to the knowledge table carries the file identifier
Unreferenced(id) == \A i \in 1..Len(kt.added) : kt.added[i].FileID # id

\* C21: the file record (identifier, content, checksum) is registered before
\* anything of loading, chunking, model selection, title inference or
\* embedding has happened, and no step ever removes or changes a registered
\* record: whenever the upload has gone past the registration, and so
\* whenever a later stage has failed, the record is still in the file table.
C21_RegisteredFirstNeverRemoved ==
    /\ []((up.file_id = None) =>
             (files = <<>> /\ BeforeAddFile(up) /\ kt.added = <<>>))
    /\ []((up.file_id # None) => (Len(files) = 1 /\ Registered(up)))
    /\ []((up.pc = "failed" /\ up.file_id # None) => Registered(up))
    /\ [][\A i \in 1..Len(files) :
             Len(files') >= i /\ files'[i] = files[i]]_vars

\* the file was registered and split into chunks, the model selection
\* failed, and the upload has failed with the record still in the file table
\* and no knowledge row referring to it
C21_Witness ==
    /\ up.pc = "failed" /\ up.error = "other"
    /\ Len(up.chunks) = MaxChunks
    /\ up.title = None /\ ~up.titleFailed /\ up.sess = "none"
    /\ Registered(up)
    /\ kt.added = <<>> /\ Unreferenced(up.file_id)
====
